---- MODULE Spec2Model ----
(***************************************************************************)
(* Model of the theme/preference subsystem of TODO-APP-RN                  *)
(* (src/hooks/useTheme.tsx): the ThemeProvider component, its mount        *)
(* effect, toggleDarkMode, the colors derivation and the useTheme hook,    *)
(* together with the AsyncStorage key "darkMode" the provider reads and    *)
(* writes.                                                                 *)
(*                                                                         *)
(* React keeps two values of the flag apart, and so does the model:        *)
(*   hookState   the value held by the useState hook, i.e. the value of    *)
(*               the last setIsDarkMode call (an update not yet rendered   *)
(*               is already in it);                                        *)
(*   isDarkMode  the constant of the last render: the value published in   *)
(*               the context and captured by that render's toggleDarkMode  *)
(*               closure.                                                  *)
(* AsyncStorage serves its operations one at a time in the order they were *)
(* issued; the operations issued and not yet settled are the sequence      *)
(* queue.                                                                  *)
(***************************************************************************)
EXTENDS Naturals, Sequences, FiniteSets

VARIABLES
    storage,             \* the string stored under "darkMode", or Null
    isDarkMode,          \* the flag as of the provider's last render
    hookState,           \* the flag held by the useState hook
    phase,               \* "rendered" | "loading" | "settled"
    queue,               \* storage operations in flight, oldest first
    readValue,           \* what the provider's getItem promise settled with
    effectPromise,       \* the promise getItem(...).then(...) of the effect
    readsIssued,         \* getItem calls of this provider
    nToggles,            \* toggleDarkMode calls on this provider
    earlyToggle,         \* some toggleDarkMode call preceded a mount effect
    toggledWhilePending, \* this provider was toggled before its read settled
    prevToggles,         \* toggleDarkMode calls on earlier providers
    life,                \* providers constructed so far
    writesIssued,        \* setItem calls issued, all providers
    lastWrite,           \* value of the setItem that fulfilled last
    pairCount,           \* position in the current pair of toggle calls
    pairBase,            \* isDarkMode before the first call of the pair
    writeFailed,         \* some setItem promise has rejected
    lastSetItem,         \* how the setItem promise settled last
    lastTogglePromise,   \* how the promise of that toggleDarkMode call settled
    lastCall             \* outcome of the latest useTheme() call

vars == <<storage, isDarkMode, hookState, phase, queue, readValue,
          effectPromise, readsIssued, nToggles, earlyToggle,
          toggledWhilePending, prevToggles, life, writesIssued, lastWrite,
          pairCount, pairBase, writeFailed, lastSetItem, lastTogglePromise,
          lastCall>>

(***************************************************************************)
(* Bounds of the exploration.                                              *)
(***************************************************************************)
MaxToggles == 3
MaxLives == 2

(***************************************************************************)
(* Values.                                                                 *)
(***************************************************************************)
Null == "<null>"
Pending == "<pending>"
Rejected == "<rejected>"
Undefined == [tag |-> "undefined"]
StorageKey == "darkMode"
ProviderErrorMessage == "useTheme must be used within a ThemeProvider"

lightColors ==
    [bg |-> "#f8fafc", surface |-> "#ffffff", text |-> "#1e293b",
     textMuted |-> "#64748b", border |-> "#e2e8f0", primary |-> "#3b82f6",
     success |-> "#10b981", warning |-> "#f59e0b", danger |-> "#ef4444",
     shadow |-> "#000000",
     gradients |->
        [background |-> <<"#f8fafc", "#e2e8f0">>,
         surface |-> <<"#ffffff", "#f8fafc">>,
         primary |-> <<"#3b82f6", "#1d4ed8">>,
         success |-> <<"#10b981", "#059669">>,
         warning |-> <<"#f59e0b", "#d97706">>,
         danger |-> <<"#ef4444", "#dc2626">>,
         muted |-> <<"#9ca3af", "#6b7280">>,
         empty |-> <<"#f3f4f6", "#e5e7eb">>],
     backgrounds |-> [input |-> "#ffffff", editInput |-> "#ffffff"],
     statusBarStyle |-> "dark-content"]

darkColors ==
    [bg |-> "#0f172a", surface |-> "#1e293b", text |-> "#f1f5f9",
     textMuted |-> "#94a3b8", border |-> "#334155", primary |-> "#60a5fa",
     success |-> "#34d399", warning |-> "#fbbf24", danger |-> "#f87171",
     shadow |-> "#000000",
     gradients |->
        [background |-> <<"#0f172a", "#1e293b">>,
         surface |-> <<"#1e293b", "#334155">>,
         primary |-> <<"#3b82f6", "#1d4ed8">>,
         success |-> <<"#10b981", "#059669">>,
         warning |-> <<"#f59e0b", "#d97706">>,
         danger |-> <<"#ef4444", "#dc2626">>,
         muted |-> <<"#374151", "#4b5563">>,
         empty |-> <<"#374151", "#4b5563">>],
     backgrounds |-> [input |-> "#1e293b", editInput |-> "#0f172a"],
     statusBarStyle |-> "light-content"]

(***************************************************************************)
(* Pure functions.                                                         *)
(***************************************************************************)
\* JSON.stringify of a boolean.
JSONStringify(b) == IF b THEN "true" ELSE "false"

\* JSON.parse of the strings the provider stores.
JSONParse(s) == CASE s = "true" -> TRUE
                  [] s = "false" -> FALSE

\* `if (value)`: null and the empty string are falsy.
Truthy(value) == value # Null /\ value # ""

\* The initial value of the hook taken as dark: useState(true).
UseStateInitial_Dark == TRUE

\* useState(false)
UseStateInitial == FALSE

\* const colors = isDarkMode ? darkColors : lightColors
Colors(flag) == IF flag THEN darkColors ELSE lightColors

\* The value of <ThemeContext.Provider value={{ isDarkMode, toggleDarkMode, colors }}>
ProvidedValue ==
    [isDarkMode |-> isDarkMode, toggleDarkMode |-> "toggleDarkMode",
     colors |-> Colors(isDarkMode)]

\* createContext(undefined): what useContext yields with no provider above.
ThemeContext(inside) == IF inside THEN ProvidedValue ELSE Undefined

GetItemOp == [op |-> "getItem", key |-> StorageKey, value |-> Null]
SetItemOp(v) == [op |-> "setItem", key |-> StorageKey, value |-> v]

(***************************************************************************)
(* Initial state: first install, nothing persisted; the first provider has *)
(* rendered once and its mount effect has not run yet.                     *)
(***************************************************************************)
Init ==
    /\ storage = Null
    /\ isDarkMode = UseStateInitial
    /\ hookState = UseStateInitial
    /\ phase = "rendered"
    /\ queue = <<>>
    /\ readValue = Pending
    /\ effectPromise = "none"
    /\ readsIssued = 0
    /\ nToggles = 0
    /\ earlyToggle = FALSE
    /\ toggledWhilePending = FALSE
    /\ prevToggles = 0
    /\ life = 1
    /\ writesIssued = 0
    /\ lastWrite = Null
    /\ pairCount = 0
    /\ pairBase = FALSE
    /\ writeFailed = FALSE
    /\ lastSetItem = "none"
    /\ lastTogglePromise = "none"
    /\ lastCall = [kind |-> "none"]

\* The effect written without its empty dependency list: it runs again after
\* the renders that follow the first one.
MountEffect_NoDeps ==
    /\ phase \in {"rendered", "settled"}
    /\ readsIssued < 2
    /\ phase' = "loading"
    /\ queue' = Append(queue, GetItemOp)
    /\ readsIssued' = readsIssued + 1
    /\ readValue' = Pending
    /\ effectPromise' = "pending"
    /\ UNCHANGED <<storage, isDarkMode, hookState, nToggles, earlyToggle,
                   toggledWhilePending, prevToggles, life, writesIssued,
                   lastWrite, pairCount, pairBase, writeFailed, lastSetItem,
                   lastTogglePromise, lastCall>>

(***************************************************************************)
(* useEffect(() => { AsyncStorage.getItem("darkMode").then(...) }, [])     *)
(* The effect body: runs once after the first render and issues the read.  *)
(***************************************************************************)
MountEffect ==
    /\ phase = "rendered"
    /\ phase' = "loading"
    /\ queue' = Append(queue, GetItemOp)
    /\ readsIssued' = readsIssued + 1
    /\ effectPromise' = "pending"
    /\ UNCHANGED <<storage, isDarkMode, hookState, readValue, nToggles,
                   earlyToggle, toggledWhilePending, prevToggles, life,
                   writesIssued, lastWrite, pairCount, pairBase,
                   writeFailed, lastSetItem, lastTogglePromise, lastCall>>

\* The callback guarded so that a loaded value never replaces a toggle made
\* while the read was pending.
GetItemResolve_KeepToggle ==
    /\ queue # <<>>
    /\ Head(queue).op = "getItem"
    /\ queue' = Tail(queue)
    /\ phase' = "settled"
    /\ readValue' = storage
    /\ effectPromise' = "fulfilled"
    /\ IF Truthy(storage) /\ nToggles = 0
         THEN /\ hookState' = JSONParse(storage)
              /\ pairCount' = 0
         ELSE UNCHANGED <<hookState, pairCount>>
    /\ UNCHANGED <<storage, isDarkMode, readsIssued, nToggles, earlyToggle,
                   toggledWhilePending, prevToggles, life, writesIssued,
                   lastWrite, pairBase, writeFailed, lastSetItem,
                   lastTogglePromise, lastCall>>

(***************************************************************************)
(* The getItem promise fulfils and the .then callback runs:                *)
(*   if (value) { setIsDarkMode(JSON.parse(value)); }                      *)
(* The read is served after the operations issued before it, so it yields  *)
(* what is stored at that point.                                           *)
(***************************************************************************)
GetItemResolve ==
    /\ queue # <<>>
    /\ Head(queue).op = "getItem"
    /\ queue' = Tail(queue)
    /\ phase' = "settled"
    /\ readValue' = storage
    /\ effectPromise' = "fulfilled"
    /\ IF Truthy(storage)
         THEN /\ hookState' = JSONParse(storage)
              /\ pairCount' = 0
         ELSE UNCHANGED <<hookState, pairCount>>
    /\ UNCHANGED <<storage, isDarkMode, readsIssued, nToggles, earlyToggle,
                   toggledWhilePending, prevToggles, life, writesIssued,
                   lastWrite, pairBase, writeFailed, lastSetItem,
                   lastTogglePromise, lastCall>>

(***************************************************************************)
(* The getItem promise rejects. The .then callback does not run; the       *)
(* promise .then returned rejects with the same reason, and the effect     *)
(* attaches no handler to it (there is no .catch).                         *)
(***************************************************************************)
GetItemReject ==
    /\ queue # <<>>
    /\ Head(queue).op = "getItem"
    /\ queue' = Tail(queue)
    /\ phase' = "settled"
    /\ readValue' = Rejected
    /\ effectPromise' = "rejected-unhandled"
    /\ UNCHANGED <<storage, isDarkMode, hookState, readsIssued, nToggles,
                   earlyToggle, toggledWhilePending, prevToggles, life,
                   writesIssued, lastWrite, pairCount, pairBase,
                   writeFailed, lastSetItem, lastTogglePromise, lastCall>>

(***************************************************************************)
(* toggleDarkMode, up to its await:                                        *)
(*   const newMode = !isDarkMode;                                          *)
(*   setIsDarkMode(newMode);                                               *)
(*   await AsyncStorage.setItem("darkMode", JSON.stringify(newMode));      *)
(* isDarkMode is the constant of the render that created this closure.     *)
(***************************************************************************)
ToggleDarkMode ==
    /\ nToggles < MaxToggles
    /\ LET newMode == ~isDarkMode
       IN  /\ hookState' = newMode
           /\ queue' = Append(queue, SetItemOp(JSONStringify(newMode)))
    /\ nToggles' = nToggles + 1
    /\ writesIssued' = writesIssued + 1
    /\ earlyToggle' = (earlyToggle \/ phase = "rendered")
    /\ toggledWhilePending' = (toggledWhilePending \/ phase # "settled")
    /\ IF pairCount = 1
         THEN /\ pairCount' = 2
              /\ UNCHANGED pairBase
         ELSE /\ pairCount' = 1
              /\ pairBase' = isDarkMode
    /\ UNCHANGED <<storage, isDarkMode, phase, readValue, effectPromise,
                   readsIssued, prevToggles, life, lastWrite, writeFailed,
                   lastSetItem, lastTogglePromise, lastCall>>

(***************************************************************************)
(* The setItem promise fulfils: the value is stored, and the promise       *)
(* toggleDarkMode returned fulfils.                                        *)
(***************************************************************************)
SetItemResolve ==
    /\ queue # <<>>
    /\ Head(queue).op = "setItem"
    /\ storage' = Head(queue).value
    /\ lastWrite' = Head(queue).value
    /\ queue' = Tail(queue)
    /\ lastSetItem' = "fulfilled"
    /\ lastTogglePromise' = "fulfilled"
    /\ UNCHANGED <<isDarkMode, hookState, phase, readValue, effectPromise,
                   readsIssued, nToggles, earlyToggle, toggledWhilePending,
                   prevToggles, life, writesIssued, pairCount, pairBase,
                   writeFailed, lastCall>>

(***************************************************************************)
(* The setItem promise rejects: nothing is stored; the await rethrows in   *)
(* toggleDarkMode, which has no try/catch, so the promise toggleDarkMode   *)
(* returned to its caller rejects.                                         *)
(***************************************************************************)
SetItemReject ==
    /\ queue # <<>>
    /\ Head(queue).op = "setItem"
    /\ queue' = Tail(queue)
    /\ writeFailed' = TRUE
    /\ lastSetItem' = "rejected"
    /\ lastTogglePromise' = "rejected"
    /\ UNCHANGED <<storage, isDarkMode, hookState, phase, readValue,
                   effectPromise, readsIssued, nToggles, earlyToggle,
                   toggledWhilePending, prevToggles, life, writesIssued,
                   lastWrite, pairCount, pairBase, lastCall>>

(***************************************************************************)
(* React re-renders the provider after a state update: the component body  *)
(* runs again, useState returns the hook's value, and a new toggleDarkMode *)
(* closure and a new context value are created from it.                    *)
(***************************************************************************)
Render ==
    /\ hookState # isDarkMode
    /\ isDarkMode' = hookState
    /\ UNCHANGED <<storage, hookState, phase, queue, readValue,
                   effectPromise, readsIssued, nToggles, earlyToggle,
                   toggledWhilePending, prevToggles, life, writesIssued,
                   lastWrite, pairCount, pairBase, writeFailed, lastSetItem,
                   lastTogglePromise, lastCall>>

\* useTheme without its check: the context is returned as useContext gave it.
UseTheme_NoCheck(inside) ==
    /\ lastCall' = [kind |-> "return", value |-> ThemeContext(inside),
                    inside |-> inside]
    /\ UNCHANGED <<storage, isDarkMode, hookState, phase, queue, readValue,
                   effectPromise, readsIssued, nToggles, earlyToggle,
                   toggledWhilePending, prevToggles, life, writesIssued,
                   lastWrite, pairCount, pairBase, writeFailed, lastSetItem,
                   lastTogglePromise>>

(***************************************************************************)
(* useTheme(), called by a consumer inside or outside a ThemeProvider.     *)
(*   const context = useContext(ThemeContext);                             *)
(*   if (context === undefined) throw new Error(...); return context;      *)
(***************************************************************************)
UseTheme(inside) ==
    /\ LET context == ThemeContext(inside)
       IN  lastCall' = IF context = Undefined
                         THEN [kind |-> "throw",
                               message |-> ProviderErrorMessage,
                               inside |-> inside]
                         ELSE [kind |-> "return", value |-> context,
                               inside |-> inside]
    /\ UNCHANGED <<storage, isDarkMode, hookState, phase, queue, readValue,
                   effectPromise, readsIssued, nToggles, earlyToggle,
                   toggledWhilePending, prevToggles, life, writesIssued,
                   lastWrite, pairCount, pairBase, writeFailed, lastSetItem,
                   lastTogglePromise>>

(***************************************************************************)
(* The application is started again once its storage traffic has drained:  *)
(* a new ThemeProvider is constructed and rendered for the first time.     *)
(***************************************************************************)
NewProvider ==
    /\ life < MaxLives
    /\ queue = <<>>
    /\ life' = life + 1
    /\ isDarkMode' = UseStateInitial
    /\ hookState' = UseStateInitial
    /\ phase' = "rendered"
    /\ readValue' = Pending
    /\ effectPromise' = "none"
    /\ readsIssued' = 0
    /\ prevToggles' = prevToggles + nToggles
    /\ nToggles' = 0
    /\ toggledWhilePending' = FALSE
    /\ pairCount' = 0
    /\ pairBase' = FALSE
    /\ lastCall' = [kind |-> "none"]
    /\ UNCHANGED <<storage, queue, earlyToggle, writesIssued, lastWrite,
                   writeFailed, lastSetItem, lastTogglePromise>>

Next ==
    \/ MountEffect
    \/ GetItemResolve
    \/ GetItemReject
    \/ ToggleDarkMode
    \/ SetItemResolve
    \/ SetItemReject
    \/ Render
    \/ \E inside \in BOOLEAN : UseTheme(inside)
    \/ NewProvider

Spec == Init /\ [][Next]_vars

\* Every storage operation settles, the mount effect runs after the first
\* render, and a pending state update is rendered.
FairSpec ==
    /\ Spec
    /\ WF_vars(GetItemResolve \/ GetItemReject)
    /\ WF_vars(SetItemResolve \/ SetItemReject)
    /\ WF_vars(MountEffect)
    /\ WF_vars(Render)

(***************************************************************************)
(* Properties.                                                             *)
(***************************************************************************)

\* The read of the provider has settled, nothing is in flight and every
\* state update has been rendered.
Quiescent == phase = "settled" /\ queue = <<>> /\ hookState = isDarkMode

\* A step in which the mount read settles.
ReadSettles == phase = "loading" /\ phase' = "settled"

\* A step that is one toggleDarkMode call.
ToggleCalled == nToggles' = nToggles + 1

\* A step in which a setItem promise settles.
WriteSettles ==
    queue # <<>> /\ Head(queue).op = "setItem" /\ queue' = Tail(queue)

\* C1 - Persistence round-trip: starting from empty storage, after n toggles
\* on the first provider, all made after its mount effect, and with every
\* storage operation completed without failure, the second provider ends,
\* once its read has settled and been rendered, with isDarkMode = TRUE
\* exactly when n is odd.
C1_PersistenceRoundTrip ==
    (life = 2 /\ Quiescent /\ nToggles = 0 /\ ~earlyToggle
        /\ ~writeFailed /\ readValue # Rejected)
    => (isDarkMode = (prevToggles % 2 = 1))

\* C2 - Self-inverse toggle: after two toggleDarkMode calls in sequence
\* (with or without a render between them) the flag, once rendered, has the
\* value it had before the first call.
C2_SelfInverseToggle ==
    (pairCount = 2 /\ hookState = isDarkMode) => (isDarkMode = pairBase)

\* C3 - Convergence of memory and storage: when no write has failed, the
\* read has settled, nothing is in flight and the provider has been toggled
\* at least once (every toggle made after a mount effect), the stored string
\* is the serialization of isDarkMode.
C3_Convergence ==
    (~writeFailed /\ Quiescent /\ nToggles > 0 /\ ~earlyToggle)
    => (storage = JSONStringify(isDarkMode))

\* C4 - Default state: a provider mounted on empty storage publishes
\* isDarkMode = FALSE and the light scheme from its first render, before and
\* after its read settles, for as long as it has not been toggled.
C4_DefaultState ==
    (storage = Null /\ nToggles = 0)
    => /\ isDarkMode = FALSE
       /\ hookState = FALSE
       /\ ProvidedValue.isDarkMode = FALSE
       /\ ProvidedValue.colors = lightColors

\* C4 witness: the first render is out, the read is still pending and no
\* toggle has happened.
C4_Witness ==
    /\ storage = Null /\ nToggles = 0 /\ phase = "loading"
    /\ readValue = Pending
    /\ ProvidedValue.colors = lightColors

\* C5 - Fail-fast misuse: every useTheme() call outside a provider throws
\* the error naming the missing provider and returns nothing; every call
\* inside a provider returns the value the provider publishes at that moment
\* and does not throw.
C5_FailFastMisuse ==
    [][(lastCall' # lastCall /\ lastCall'.kind # "none")
        => IF lastCall'.inside
             THEN /\ lastCall'.kind = "return"
                  /\ lastCall'.value = ProvidedValue
                  /\ lastCall'.value.colors \in {lightColors, darkColors}
             ELSE /\ lastCall'.kind = "throw"
                  /\ lastCall'.message = ProviderErrorMessage
                  /\ "value" \notin DOMAIN lastCall']_vars

\* C5 witness: a call made outside a provider has thrown.
C5_Witness ==
    /\ lastCall.kind = "throw"
    /\ ~lastCall.inside
    /\ lastCall.message = ProviderErrorMessage

\* C6 - Silent default on load: when the mount read finds nothing or fails,
\* the flag is left as it is (the default unless toggled) and no error
\* leaves the provider: the effect's promise does not end rejected with no
\* handler.
C6_SilentDefaultOnLoad ==
    [][(ReadSettles /\ readValue' \in {Null, Rejected})
        => /\ hookState' = hookState
           /\ isDarkMode' = isDarkMode
           /\ effectPromise' # "rejected-unhandled"]_vars

\* C7 - Persist failure on toggle: when a setItem issued by toggleDarkMode
\* fails, the flag in memory is not rolled back, no new write is issued, the
\* stored value stays the last one persisted and the failure does not reach
\* the caller: the promise toggleDarkMode returned does not reject.
C7_PersistFailure ==
    [][(WriteSettles /\ lastSetItem' = "rejected")
        => /\ hookState' = hookState
           /\ isDarkMode' = isDarkMode
           /\ storage' = storage
           /\ storage' = lastWrite'
           /\ writesIssued' = writesIssued
           /\ lastTogglePromise' # "rejected"]_vars

\* C8 - Rapid toggles: every toggleDarkMode call computes the negation of
\* the flag as it is when the call is made, also before any re-render, and
\* issues its own setItem of the value it computed; the stored value is the
\* one of the write that completed last.
C8_RapidToggles ==
    [][/\ ToggleCalled
          => /\ hookState' = ~hookState
             /\ writesIssued' = writesIssued + 1
             /\ queue' = Append(queue, SetItemOp(JSONStringify(~hookState)))
       /\ storage' = lastWrite']_vars

\* C9 - Adoption of the loaded value: when the mount read settles with
\* "true" or "false", the hook is set to the boolean read, whether or not
\* toggleDarkMode was called while the read was pending, and the load writes
\* nothing to storage.
C9_AdoptLoadedValue ==
    [][(ReadSettles /\ readValue' \in {"true", "false"})
        => /\ readValue' = storage
           /\ hookState' = (readValue' = "true")
           /\ storage' = storage
           /\ writesIssued' = writesIssued
           /\ queue' = Tail(queue)]_vars

\* C9 witness: on storage holding "false" one toggle made the flag TRUE
\* while the read was pending, and the read then settled and replaced it.
C9_Witness ==
    /\ phase = "settled" /\ readValue = "false"
    /\ toggledWhilePending /\ nToggles = 1
    /\ hookState = FALSE

\* C10 - Initialization state machine: a provider issues its read once, on
\* mount; the loading state is entered once, left once when that read
\* settles (fulfilled or rejected), never re-entered, and always left, into
\* light or dark; toggleDarkMode is enabled in every state of the provider.
C10_InitStateMachine ==
    /\ [](readsIssued = IF phase = "rendered" THEN 0 ELSE 1)
    /\ []((phase = "loading")
            <=> (\E i \in 1..Len(queue) : queue[i].op = "getItem"))
    /\ []((phase = "settled") <=> (readValue # Pending))
    /\ [](/\ hookState \in BOOLEAN
          /\ Colors(isDarkMode) \in {lightColors, darkColors})
    /\ [](nToggles < MaxToggles => ENABLED ToggleDarkMode)
    /\ [][life' = life
            => /\ phase = "rendered" => phase' \in {"rendered", "loading"}
               /\ phase = "loading" => phase' \in {"loading", "settled"}
               /\ phase = "settled"
                    => phase' = "settled" /\ readValue' = readValue
               /\ ReadSettles => Head(queue).op = "getItem"]_vars
    /\ (phase = "loading") ~> (phase = "settled")

\* C10 witness: the read of the second provider has settled after a toggle
\* was made while it was pending.
C10_Witness ==
    /\ life = 2 /\ phase = "settled" /\ readsIssued = 1
    /\ toggledWhilePending
====
